---- MODULE Spec2Model ----
(***************************************************************************)
(* hugepage_mmap_wrapper.cpp: an LD_PRELOAD layer that intercepts mmap()   *)
(* and munmap().  A whole-file mmap of a hugetlbfs file is replaced by an  *)
(* anonymous region filled with the file's bytes; the region is recorded   *)
(* in a singly linked list (allocations) so that munmap can release it     *)
(* with its true size.                                                     *)
(*                                                                         *)
(* Memory is modelled page by page (an address is a page number, a length  *)
(* a number of pages, a file byte one page worth of content).  Each entry  *)
(* point is a sequence of steps, one per system call or access to the      *)
(* process-wide state, so that calls of different threads can interleave.  *)
(***************************************************************************)
EXTENDS Integers, Sequences, FiniteSets, TLC

\* ------------------------------------------------------------------ bounds
\* Size of the address space, in pages (addresses are 1..MaxPage).
MaxPage == 3
\* Largest file size / request length, in pages.
MaxLen == 3
\* Number of list nodes malloc can hand out at one time.
MaxNodes == 3
\* Number of mmap/munmap calls issued in one run.
MaxCalls == 2
\* chunk_size of the copy loop (64 MB in the source), scaled to pages.
ChunkSize == 2

\* ------------------------------------------------------- program constants
\* 0x958458f6, written as its two 16-bit halves <<0x9584, 0x58f6>> (the
\* model checker's integers are 32 bits wide, signed).
HUGETLBFS_MAGIC == <<38276, 22774>>
PROT_READ == 1
PROT_WRITE == 2
MAP_PRIVATE == 2
MAP_ANONYMOUS == 32
MAP_HUGETLB == 262144

\* nullptr, MAP_FAILED ((void*)-1)
NULL == 0
MAP_FAILED == 0 - 1

Threads == {"t1", "t2"}
Pages == 1..MaxPage
Nodes == 1..MaxNodes

\* The descriptors a caller passes: -1 (anonymous request), 3 a file on an
\* ordinary filesystem, 4 and 5 two files on hugetlbfs, 6 a file on which
\* fstatfs fails.
HugeFds == {4, 5}
Fds == {0 - 1, 3, 4, 5, 6}

\* fstatfs(fd): 0 with f_type, or -1.
Fstatfs(fd) ==
    CASE fd \in HugeFds -> [rc |-> 0, f_type |-> HUGETLBFS_MAGIC]
      [] fd = 3 -> [rc |-> 0, f_type |-> <<0, 61267>>]
      [] OTHER -> [rc |-> 0 - 1, f_type |-> <<0, 0>>]

\* Byte i (0-based) of the file behind fd.  The content does not change;
\* the size may: another process may truncate or extend a file between any
\* two system calls, so each call that depends on the size (fstat, read)
\* sees any size in FileSizes.
FileByte(fd, i) == fd * 10 + i + 1

\* The sizes a file may have.
FileSizes == 0..MaxLen

\* The requests a caller may issue: a read-only private mapping with no
\* address hint, or a shared (flags 1) read/write mapping with a hint, of any
\* descriptor and length, at offset 0 or, for the hugetlbfs files, 1.
Modes == {[addr |-> NULL, prot |-> PROT_READ, flags |-> MAP_PRIVATE],
          [addr |-> 1, prot |-> PROT_READ + PROT_WRITE, flags |-> 1]}
MmapArgs ==
    {a \in {[addr |-> m.addr, length |-> n, prot |-> m.prot,
             flags |-> m.flags, fd |-> fd, offset |-> o] :
                m \in Modes, n \in 0..MaxLen, fd \in Fds, o \in {0, 1}} :
        a.offset # 0 => a.fd \in HugeFds}
MunmapArgs == [addr : Pages, length : 0..MaxLen]

VARIABLES
    real_mmap,      \* the cached handle is non-null
    real_munmap,
    allocations,    \* head of the record list: a node or NULL
    heap,           \* node -> [addr, size, next, live]
    mem,            \* page -> [kind, prot, data]
    fpos,           \* fd -> read position
    proc,           \* "running", "exited" (exit(1)), "crashed"
    syms,           \* which symbols dlsym can find
    pc,             \* thread -> position
    args,           \* thread -> arguments of the call in progress
    loc,            \* thread -> locals of the call in progress
    obs,            \* thread -> what the call in progress did (history)
    hist,           \* process-wide history
    sched           \* "serial": calls do not overlap; "mt": they interleave

vars == <<real_mmap, real_munmap, allocations, heap, mem, fpos, proc, syms,
          pc, args, loc, obs, hist, sched>>

FreePage == [kind |-> "free", prot |-> 0, data |-> 0]
FreeNode == [addr |-> 0, size |-> 0, next |-> NULL, live |-> FALSE]
NoArgs == [addr |-> 0, length |-> 0, prot |-> 0, flags |-> 0, fd |-> 0, offset |-> 0]
NoLoc ==
    [entry |-> "none", st_size |-> 0, huge_mem |-> NULL, total_read |-> 0,
     tracked_size |-> 0, prev |-> NULL, curr |-> NULL, alloc |-> NULL,
     next |-> NULL, ret |-> 0]
NoObs ==
    [log |-> <<>>, reg0 |-> <<>>, cause |-> "none", touched |-> FALSE,
     activated |-> FALSE, mprotect |-> "none", pos0 |-> 0, nfree |-> 0,
     nreads |-> 0, reads |-> <<>>]

\* ------------------------------------------------------------ the registry
\* The nodes reachable from pointer p, in order (at most k of them).
RECURSIVE Chain(_, _, _)
Chain(h, p, k) ==
    IF p = NULL \/ k = 0 THEN <<>>
    ELSE <<p>> \o Chain(h, h[p].next, k - 1)

\* The registry as the list of <<addr, size>> records, head first.
Records(h, p) ==
    LET c == Chain(h, p, MaxNodes + 1)
    IN  [i \in 1..Len(c) |-> <<h[c[i]].addr, h[c[i]].size>>]

Registry == Records(heap, allocations)
RegistryAddrs == {Registry[i][1] : i \in 1..Len(Registry)}

\* ------------------------------------------------------ the real primitives
HasWrite(prot) == (prot \div PROT_WRITE) % 2 = 1

\* Bases at which len free pages lie in a row.
FreeBases(m, len) ==
    {b \in Pages : b + len - 1 <= MaxPage
                   /\ \A p \in b..(b + len - 1) : m[p].kind = "free"}

\* (mutant) a kernel that accepts a request of length 0.
MmapResultsZeroLength(m, len) == {MAP_FAILED} \cup FreeBases(m, len)

\* What the kernel's mmap may return for a request of len pages: MAP_FAILED
\* (always possible: ENOMEM, no huge pages; certain for len = 0, EINVAL) or
\* the base of a free range.
MmapResults(m, len) ==
    {MAP_FAILED} \cup (IF len > 0 THEN FreeBases(m, len) ELSE {})

\* The pages a successful mmap maps.  The layer never looks at a region it
\* did not allocate itself, so only anonymous pages carry their protection.
MapPages(m, b, len, kind, prot) ==
    [p \in Pages |->
        IF p \in b..(b + len - 1)
        THEN [kind |-> kind, prot |-> IF kind = "anon" THEN prot ELSE 0,
              data |-> 0]
        ELSE m[p]]

\* The kernel's munmap: EINVAL for a zero length, otherwise every page of
\* the range is unmapped (pages that are not mapped are skipped).
MunmapResult(addr, len) == IF len = 0 THEN 0 - 1 ELSE 0
UnmapPages(m, addr, len) ==
    [p \in Pages |-> IF p \in addr..(addr + len - 1) THEN FreePage ELSE m[p]]

\* History: the synthesized regions <<base, length>> of set s that are still
\* mapped after the kernel unmapped len pages at addr.
Released(s, addr, len) == {r \in s : r[1] \notin addr..(addr + len - 1)}

MmapCall(a, res) ==
    [fn |-> "mmap",
     a |-> <<a.addr, a.length, a.prot, a.flags, a.fd, a.offset>>, res |-> res]
MunmapCall(addr, len, res) ==
    [fn |-> "munmap", a |-> <<addr, len>>, res |-> res]

Running == proc = "running"

InitState ==
    /\ real_mmap = FALSE
    /\ real_munmap = FALSE
    /\ allocations = NULL
    /\ heap = [n \in Nodes |-> FreeNode]
    /\ mem = [p \in Pages |-> FreePage]
    /\ fpos = [fd \in Fds \ {0 - 1} |-> 0]
    /\ proc = "running"
    /\ syms \in [mmap : BOOLEAN, munmap : BOOLEAN]
    /\ pc = [t \in Threads |-> "idle"]
    /\ args = [t \in Threads |-> NoArgs]
    /\ loc = [t \in Threads |-> NoLoc]
    /\ obs = [t \in Threads |-> NoObs]

\* The history of a process that has issued ncalls calls and synthesized
\* nothing yet.
NoHist(ncalls) ==
    [ncalls |-> ncalls, loaded |-> FALSE, drain |-> "no", synth |-> {},
     doubleFree |-> FALSE]

\* A single-threaded process: every call is issued by thread t1.
Init == InitState /\ hist = NoHist(0) /\ sched = "serial"
\* Calls of different threads interleave at every step.
InitMT == InitState /\ hist = NoHist(0) /\ sched = "mt"

\* The mmap requests thread t issues.  The two hugetlbfs files are alike and
\* each thread uses its own (t1 file 4, t2 file 5); the single-threaded
\* process issues every request on every other descriptor and on its file,
\* while in the multithreaded one each thread maps its file from offset 0
\* (the requests that can reach the registry).
OwnFd(t) == IF t = "t1" THEN 4 ELSE 5
MmapRequests(t) ==
    IF sched = "mt"
    THEN {a \in MmapArgs : a.fd = OwnFd(t) /\ a.offset = 0 /\ a.length > 0}
    ELSE {a \in MmapArgs : a.fd \in HugeFds => a.fd = OwnFd(t)}

\* Thread t may take a step.  A call that has reached its return statement
\* returns before another thread's next step: returning touches nothing that
\* is shared, so the order of the two steps makes no difference.
Turn(t) ==
    /\ Running
    /\ sched = "serial" => t = "t1"
    /\ pc[t] # "done" => \A u \in Threads : pc[u] # "done"

\* ------------------------------------------------------- the entry points
\* A caller enters mmap(addr, length, prot, flags, fd, offset).
CallMmap(t) ==
    /\ Turn(t) /\ pc[t] = "idle"
    /\ hist.ncalls < MaxCalls /\ hist.drain = "no"
    /\ \E a \in MmapRequests(t) :
          /\ args' = [args EXCEPT ![t] = a]
          /\ obs' = [obs EXCEPT ![t] =
                        [NoObs EXCEPT !.reg0 = Registry,
                                      !.pos0 = IF a.fd >= 0 THEN fpos[a.fd]
                                               ELSE 0]]
    /\ loc' = [loc EXCEPT ![t] = [NoLoc EXCEPT !.entry = "mmap"]]
    /\ hist' = [hist EXCEPT !.ncalls = @ + 1]
    /\ pc' = [pc EXCEPT ![t] = "init_rd_mmap"]
    /\ UNCHANGED <<real_mmap, real_munmap, allocations, heap, mem, fpos,
                   proc, syms, sched>>

\* A caller enters munmap(addr, length).
CallMunmap(t) ==
    /\ Turn(t) /\ pc[t] = "idle"
    /\ hist.ncalls < MaxCalls /\ hist.drain = "no"
    /\ \E a \in MunmapArgs :
          args' = [args EXCEPT ![t] = [NoArgs EXCEPT !.addr = a.addr,
                                                     !.length = a.length]]
    /\ loc' = [loc EXCEPT ![t] = [NoLoc EXCEPT !.entry = "munmap"]]
    /\ obs' = [obs EXCEPT ![t] = [NoObs EXCEPT !.reg0 = Registry]]
    /\ hist' = [hist EXCEPT !.ncalls = @ + 1]
    /\ pc' = [pc EXCEPT ![t] = "init_rd_mmap"]
    /\ UNCHANGED <<real_mmap, real_munmap, allocations, heap, mem, fpos,
                   proc, syms, sched>>

\* The loader runs the constructor init(): once, while the library is being
\* loaded, which is before the first mmap or munmap request is issued or
\* while the first ones (issued by another library's constructor) are
\* running.  Loading is over when a call has returned.
Attach(t) ==
    /\ Turn(t) /\ pc[t] = "idle"
    /\ ~hist.loaded /\ hist.drain = "no"
    /\ loc' = [loc EXCEPT ![t] = [NoLoc EXCEPT !.entry = "init"]]
    /\ obs' = [obs EXCEPT ![t] = [NoObs EXCEPT !.reg0 = Registry]]
    /\ hist' = [hist EXCEPT !.loaded = TRUE]
    /\ pc' = [pc EXCEPT ![t] = "init_rd_mmap"]
    /\ UNCHANGED <<real_mmap, real_munmap, allocations, heap, mem, fpos,
                   proc, syms, args, sched>>

\* The loader runs the destructor cleanup() (once, at process teardown: no
\* call is issued after it has begun).
Detach(t) ==
    /\ Turn(t) /\ pc[t] = "idle"
    /\ hist.drain = "no"
    /\ loc' = [loc EXCEPT ![t] = [NoLoc EXCEPT !.entry = "cleanup"]]
    /\ obs' = [obs EXCEPT ![t] = [NoObs EXCEPT !.reg0 = Registry]]
    /\ hist' = [hist EXCEPT !.drain = "running"]
    /\ pc' = [pc EXCEPT ![t] = "c_read"]
    /\ UNCHANGED <<real_mmap, real_munmap, allocations, heap, mem, fpos,
                   proc, syms, args, sched>>

\* The call returns to its caller.
Return(t) ==
    /\ Turn(t) /\ pc[t] = "done"
    /\ pc' = [pc EXCEPT ![t] = "idle"]
    /\ args' = [args EXCEPT ![t] = NoArgs]
    /\ loc' = [loc EXCEPT ![t] = NoLoc]
    /\ obs' = [obs EXCEPT ![t] = NoObs]
    /\ hist' = [hist EXCEPT !.loaded = TRUE]
    /\ UNCHANGED <<real_mmap, real_munmap, allocations, heap, mem, fpos,
                   proc, syms, sched>>

\* ---------------------------------------------------------- init_functions
AfterInit(entry) ==
    CASE entry = "mmap" -> "m_classify"
      [] entry = "munmap" -> "u_start"
      [] OTHER -> "done"

\* (mutant) a symbol that dlsym cannot find is not fatal.
ResolveFailedIgnored(handle) == FALSE

\* if (!real_mmap) { fprintf(...); exit(1); } after the dlsym: the handle
\* just stored is null.
ResolveFailed(handle) == ~handle

\* if (!real_mmap)
InitRdMmap(t) ==
    /\ Turn(t) /\ pc[t] = "init_rd_mmap"
    /\ pc' = [pc EXCEPT ![t] = IF real_mmap THEN "init_rd_munmap"
                                ELSE "init_wr_mmap"]
    /\ UNCHANGED <<real_mmap, real_munmap, allocations, heap, mem, fpos,
                   proc, syms, args, loc, obs, hist, sched>>

\* real_mmap = dlsym(RTLD_NEXT, "mmap"); if (!real_mmap) exit(1);
InitWrMmap(t) ==
    /\ Turn(t) /\ pc[t] = "init_wr_mmap"
    /\ real_mmap' = syms.mmap
    /\ IF ~ResolveFailed(syms.mmap)
       THEN pc' = [pc EXCEPT ![t] = "init_rd_munmap"] /\ proc' = proc
       ELSE pc' = pc /\ proc' = "exited"
    /\ UNCHANGED <<real_munmap, allocations, heap, mem, fpos, syms,
                   args, loc, obs, hist, sched>>

\* if (!real_munmap)
InitRdMunmap(t) ==
    /\ Turn(t) /\ pc[t] = "init_rd_munmap"
    /\ pc' = [pc EXCEPT ![t] = IF real_munmap THEN AfterInit(loc[t].entry)
                                ELSE "init_wr_munmap"]
    /\ UNCHANGED <<real_mmap, real_munmap, allocations, heap, mem, fpos,
                   proc, syms, args, loc, obs, hist, sched>>

\* real_munmap = dlsym(RTLD_NEXT, "munmap"); if (!real_munmap) exit(1);
InitWrMunmap(t) ==
    /\ Turn(t) /\ pc[t] = "init_wr_munmap"
    /\ real_munmap' = syms.munmap
    /\ IF ~ResolveFailed(syms.munmap)
       THEN pc' = [pc EXCEPT ![t] = AfterInit(loc[t].entry)] /\ proc' = proc
       ELSE pc' = pc /\ proc' = "exited"
    /\ UNCHANGED <<real_mmap, allocations, heap, mem, fpos, syms,
                   args, loc, obs, hist, sched>>

\* -------------------------------------------------------------------- mmap
\* (mutant) a failed fstatfs counts as "on hugetlbfs".
IsHugetlbfsFdOnError(fd) ==
    LET fs_info == Fstatfs(fd)
    IN  IF fs_info.rc = 0 THEN fs_info.f_type = HUGETLBFS_MAGIC ELSE TRUE

\* is_hugetlbfs_fd
IsHugetlbfsFd(fd) ==
    LET fs_info == Fstatfs(fd)
    IN  IF fs_info.rc = 0 THEN fs_info.f_type = HUGETLBFS_MAGIC ELSE FALSE

\* fd >= 0 && is_hugetlbfs_fd(fd)
Special(fd) == fd >= 0 /\ IsHugetlbfsFd(fd)


\* (mutant) the offset is not looked at.
WholeFileAnyOffset(offset, length, st_size) == length = st_size

\* offset == 0 && length == (size_t)st.st_size
WholeFile(offset, length, st_size) == offset = 0 /\ length = st_size

\* The arguments of the two anonymous allocations.
HugeArgs(length) ==
    [addr |-> NULL, length |-> length, prot |-> PROT_READ + PROT_WRITE,
     flags |-> MAP_PRIVATE + MAP_ANONYMOUS + MAP_HUGETLB, fd |-> 0 - 1,
     offset |-> 0]
AnonArgs(length) ==
    [addr |-> NULL, length |-> length, prot |-> PROT_READ + PROT_WRITE,
     flags |-> MAP_PRIVATE + MAP_ANONYMOUS, fd |-> 0 - 1, offset |-> 0]

\* if (fd >= 0 && is_hugetlbfs_fd(fd))
MClassify(t) ==
    /\ Turn(t) /\ pc[t] = "m_classify"
    /\ pc' = [pc EXCEPT ![t] = IF Special(args[t].fd) THEN "m_fstat"
                                ELSE "m_pass"]
    /\ UNCHANGED <<real_mmap, real_munmap, allocations, heap, mem, fpos,
                   proc, syms, args, loc, obs, hist, sched>>

\* (mutant) the status of fstat is not looked at.
FstatFailedNever(rc) == FALSE

\* if (fstat(fd, &st) != 0)
FstatFailed(rc) == rc # 0

\* fstat(fd, &st), which may fail, and the whole-file test (sz: what st.st_size
\* holds after the call).
MFstat(t) ==
    /\ Turn(t) /\ pc[t] = "m_fstat"
    /\ \E rc \in {0, 0 - 1}, sz \in FileSizes :
          IF FstatFailed(rc)
          THEN /\ pc' = [pc EXCEPT ![t] = "m_pass"]
               /\ obs' = [obs EXCEPT ![t].cause = "fstat"]
               /\ loc' = loc
          ELSE LET whole == WholeFile(args[t].offset, args[t].length, sz)
               IN  /\ loc' = [loc EXCEPT ![t].st_size = sz]
                   /\ obs' = [obs EXCEPT ![t].activated = whole,
                                         ![t].cause = IF rc # 0 THEN "fstat"
                                                      ELSE "stat_ok"]
                   /\ pc' = [pc EXCEPT ![t] = IF whole THEN "m_huge"
                                               ELSE "m_pass"]
    /\ UNCHANGED <<real_mmap, real_munmap, allocations, heap, mem, fpos,
                   proc, syms, args, hist, sched>>

\* return real_mmap(addr, length, prot, flags, fd, offset);
PassArgs(a) == a
MPass(t) ==
    /\ Turn(t) /\ pc[t] = "m_pass"
    /\ LET a == PassArgs(args[t])
       IN  \E res \in MmapResults(mem, a.length) :
              /\ mem' = IF res = MAP_FAILED THEN mem
                        ELSE MapPages(mem, res, a.length, "native", a.prot)
              /\ obs' = [obs EXCEPT ![t].log = Append(@, MmapCall(a, res))]
              /\ loc' = [loc EXCEPT ![t].ret = res]
    /\ pc' = [pc EXCEPT ![t] = "done"]
    /\ UNCHANGED <<real_mmap, real_munmap, allocations, heap, fpos,
                   proc, syms, args, hist, sched>>

\* (mutant) the result of an allocation is not looked at.
AllocFailedNever(huge_mem) == FALSE

\* if (huge_mem == MAP_FAILED)
AllocFailed(huge_mem) == huge_mem = MAP_FAILED

\* huge_mem = real_mmap(nullptr, length, RW, PRIVATE|ANONYMOUS|HUGETLB, -1, 0)
MHuge(t) ==
    /\ Turn(t) /\ pc[t] = "m_huge"
    /\ LET a == HugeArgs(args[t].length)
       IN  \E res \in MmapResults(mem, a.length) :
              /\ mem' = IF res = MAP_FAILED THEN mem
                        ELSE MapPages(mem, res, a.length, "anon", a.prot)
              /\ obs' = [obs EXCEPT ![t].log = Append(@, MmapCall(a, res))]
              /\ loc' = [loc EXCEPT ![t].huge_mem = res]
              /\ pc' = [pc EXCEPT ![t] = IF AllocFailed(res) THEN "m_anon"
                                          ELSE "m_seek"]
    /\ UNCHANGED <<real_mmap, real_munmap, allocations, heap, fpos,
                   proc, syms, args, hist, sched>>

\* The fallback without MAP_HUGETLB; return MAP_FAILED if it fails too.
MAnon(t) ==
    /\ Turn(t) /\ pc[t] = "m_anon"
    /\ LET a == AnonArgs(args[t].length)
       IN  \E res \in MmapResults(mem, a.length) :
              /\ mem' = IF res = MAP_FAILED THEN mem
                        ELSE MapPages(mem, res, a.length, "anon", a.prot)
              /\ obs' = [obs EXCEPT ![t].log = Append(@, MmapCall(a, res)),
                                    ![t].cause = IF res = MAP_FAILED
                                                 THEN "alloc" ELSE @]
              /\ loc' = [loc EXCEPT ![t].huge_mem = res,
                                    ![t].ret = IF AllocFailed(res)
                                               THEN MAP_FAILED ELSE @]
              /\ pc' = [pc EXCEPT ![t] = IF AllocFailed(res) THEN "done"
                                          ELSE "m_seek"]
    /\ UNCHANGED <<real_mmap, real_munmap, allocations, heap, fpos,
                   proc, syms, args, hist, sched>>

\* (mutant) the status of lseek is not looked at.
SeekFailedNever(rc) == FALSE

\* if (lseek(fd, 0, SEEK_SET) != 0)
SeekFailed(rc) == rc # 0

\* lseek(fd, 0, SEEK_SET), which returns the new position 0 or fails with -1
\* leaving the position alone; on failure real_munmap(...), return MAP_FAILED.
MSeek(t) ==
    /\ Turn(t) /\ pc[t] = "m_seek"
    /\ \E rc \in {0, 0 - 1} :
          /\ fpos' = IF rc = 0 THEN [fpos EXCEPT ![args[t].fd] = 0] ELSE fpos
          /\ obs' = [obs EXCEPT ![t].touched = TRUE,
                                ![t].cause = IF rc # 0 THEN "seek" ELSE @]
          /\ pc' = [pc EXCEPT ![t] = IF SeekFailed(rc) THEN "m_abort"
                                      ELSE "m_read"]
    /\ UNCHANGED <<real_mmap, real_munmap, allocations, heap, mem,
                   proc, syms, args, loc, hist, sched>>

\* size_t to_read = (length - total_read < chunk_size) ? ... : chunk_size
ToRead(length, total_read) ==
    IF length - total_read < ChunkSize THEN length - total_read ELSE ChunkSize

\* (mutant) every chunk is stored at the start of the region.
ReadDestStart(huge_mem, total_read) == huge_mem

\* dest + total_read: where the next chunk is stored.
ReadDest(huge_mem, total_read) == huge_mem + total_read

\* What read(fd, buf, n) may return: -1, 0 at or past the end of the file,
\* otherwise any positive count up to n and to what is left of the file.  A
\* buffer that is not mapped writable gives -1 (EFAULT).
ReadResults(fd, buf, n) ==
    LET ok == \A p \in buf..(buf + n - 1) :
                 p \in Pages /\ mem[p].kind # "free" /\ HasWrite(mem[p].prot)
        counts(size) ==
            LET avail == IF size > fpos[fd] THEN size - fpos[fd] ELSE 0
            IN  IF avail = 0 THEN {0} ELSE 1..(IF n < avail THEN n ELSE avail)
    IN  {0 - 1} \cup
        (IF ok THEN UNION {counts(size) : size \in FileSizes} ELSE {})

\* (mutant) a read that leaves the read position where it was.
ReadAdvanceNone(pos, n) == pos

\* read(fd, ...) moves the descriptor's read position past the n bytes it
\* returned.
ReadAdvance(pos, n) == pos + n

\* (mutant) a read that returns 0 is not a failure.
ReadFailedOnError(bytes_read) == bytes_read < 0

\* if (bytes_read <= 0)
ReadFailed(bytes_read) == bytes_read <= 0

\* while (total_read < (ssize_t)length) { bytes_read = read(...); ... }
\* (history: reads, the <<to_read, bytes_read>> of every read of the loop)
MRead(t) ==
    /\ Turn(t) /\ pc[t] = "m_read"
    /\ LET fd == args[t].fd
           total == loc[t].total_read
           dest == ReadDest(loc[t].huge_mem, total)
           to_read == ToRead(args[t].length, total)
       IN  IF total < args[t].length
           THEN \E n \in ReadResults(fd, dest, to_read) :
                   IF ReadFailed(n)
                   THEN /\ obs' = [obs EXCEPT ![t].cause = IF n < 0
                                                 THEN "read" ELSE "eof",
                                              ![t].reads =
                                                 Append(@, <<to_read, n>>)]
                        /\ pc' = [pc EXCEPT ![t] = "m_abort"]
                        /\ UNCHANGED <<mem, fpos, loc>>
                   ELSE /\ mem' = [p \in Pages |->
                                     IF p \in dest..(dest + n - 1)
                                     THEN [mem[p] EXCEPT !.data =
                                            FileByte(fd, fpos[fd] + (p - dest))]
                                     ELSE mem[p]]
                        /\ fpos' = [fpos EXCEPT ![fd] = ReadAdvance(@, n)]
                        /\ loc' = [loc EXCEPT ![t].total_read = total + n]
                        /\ obs' = [obs EXCEPT ![t].nreads = @ + 1,
                                              ![t].reads =
                                                 Append(@, <<to_read, n>>)]
                        /\ pc' = pc
           ELSE /\ pc' = [pc EXCEPT ![t] = "m_prot"]
                /\ UNCHANGED <<mem, fpos, loc, obs>>
    /\ UNCHANGED <<real_mmap, real_munmap, allocations, heap, proc,
                   syms, args, hist, sched>>

\* (mutant) the abort paths release only what was copied so far.
AbortLenCopied(length, total_read) == total_read

\* The length passed to real_munmap on the abort paths.
AbortLen(length, total_read) == length

\* real_munmap(huge_mem, length); return MAP_FAILED;
MAbort(t) ==
    /\ Turn(t) /\ pc[t] = "m_abort"
    /\ LET len == AbortLen(args[t].length, loc[t].total_read)
           res == MunmapResult(loc[t].huge_mem, len)
       IN  /\ mem' = IF res = 0 THEN UnmapPages(mem, loc[t].huge_mem, len)
                     ELSE mem
           /\ hist' = [hist EXCEPT !.synth =
                         IF res = 0 THEN Released(@, loc[t].huge_mem, len)
                         ELSE @]
           /\ obs' = [obs EXCEPT ![t].log =
                         Append(@, MunmapCall(loc[t].huge_mem, len, res))]
    /\ loc' = [loc EXCEPT ![t].ret = MAP_FAILED]
    /\ pc' = [pc EXCEPT ![t] = "done"]
    /\ UNCHANGED <<real_mmap, real_munmap, allocations, heap, fpos,
                   proc, syms, args, sched>>

\* (mutant) the fix-up is applied to the writable requests instead.
NeedsFixupInverted(prot) == HasWrite(prot)

\* if (!(prot & PROT_WRITE))
NeedsFixup(prot) == ~HasWrite(prot)

\* (mutant) a failed fix-up takes the abort path.
AfterProtFatal(rc) == IF rc # 0 THEN "m_abort" ELSE "m_track1"

\* Where mmap goes on after mprotect returned rc: "Non-fatal, continue
\* anyway", to track_allocation.
AfterProt(rc) == "m_track1"

\* mprotect(huge_mem, length, prot), which may fail (always fails on a range
\* that is not fully mapped); a failure is logged and ignored.
MProt(t) ==
    /\ Turn(t) /\ pc[t] = "m_prot"
    /\ LET range == loc[t].huge_mem..(loc[t].huge_mem + args[t].length - 1)
           mapped == \A p \in range : mem[p].kind # "free"
       IN  IF NeedsFixup(args[t].prot)
           THEN \E rc \in {0 - 1} \cup (IF mapped THEN {0} ELSE {}) :
                   /\ mem' = IF rc = 0
                             THEN [p \in Pages |->
                                     IF p \in range
                                     THEN [mem[p] EXCEPT !.prot = args[t].prot]
                                     ELSE mem[p]]
                             ELSE mem
                   /\ obs' = [obs EXCEPT ![t].mprotect =
                                 IF rc = 0 THEN "ok" ELSE "failed"]
                   /\ pc' = [pc EXCEPT ![t] = AfterProt(rc)]
           ELSE /\ UNCHANGED <<mem, obs>>
                /\ pc' = [pc EXCEPT ![t] = AfterProt(0)]
    /\ UNCHANGED <<real_mmap, real_munmap, allocations, heap, fpos,
                   proc, syms, args, loc, hist, sched>>

\* What a read of node n may return: its fields while it is allocated; after
\* free(n) (a read through a dangling pointer) anything, the old fields
\* included.
NodeView(n) ==
    IF heap[n].live THEN {heap[n]}
    ELSE [addr : Pages \cup {NULL}, size : 0..MaxLen,
          next : Nodes \cup {NULL}, live : {FALSE}]

\* What a read of n->next may return, and what a read of n->size may return
\* once n->addr has been read as addr.
NextView(n) == {v.next : v \in NodeView(n)}
SizeView(n, addr) == {v.size : v \in {w \in NodeView(n) : w.addr = addr}}
AddrView(n) == {v.addr : v \in NodeView(n)}

\* free(n): the node's memory is the allocator's again.
Free(h, n) == [h EXCEPT ![n] = FreeNode]

\* malloc: NULL, or a node that is not allocated (the allocator hands out
\* the lowest one, so a freed node is reused first).
Malloc(h) ==
    LET free == {m \in Nodes : ~h[m].live}
    IN  {NULL} \cup {m \in free : \A k \in free : m <= k}

\* track_allocation, first half: alloc = malloc(...); alloc->addr = addr;
\* alloc->size = size; alloc->next = allocations.  malloc may return NULL,
\* and the store through it then ends the process.
TrackNode(addr, size, head) ==
    [addr |-> addr, size |-> size, next |-> head, live |-> TRUE]
MTrack1(t) ==
    /\ Turn(t) /\ pc[t] = "m_track1"
    /\ \E n \in Malloc(heap) :
          IF n = NULL
          THEN /\ proc' = "crashed"
               /\ UNCHANGED <<heap, loc, pc>>
          ELSE /\ heap' = [heap EXCEPT ![n] =
                             TrackNode(loc[t].huge_mem, args[t].length,
                                       allocations)]
               /\ loc' = [loc EXCEPT ![t].alloc = n]
               /\ pc' = [pc EXCEPT ![t] = "m_track2"]
               /\ proc' = proc
    /\ UNCHANGED <<real_mmap, real_munmap, allocations, mem, fpos,
                   syms, args, obs, hist, sched>>

\* track_allocation, second half: allocations = alloc; then return huge_mem.
MTrack2(t) ==
    /\ Turn(t) /\ pc[t] = "m_track2"
    /\ allocations' = loc[t].alloc
    /\ loc' = [loc EXCEPT ![t].ret = loc[t].huge_mem]
    /\ hist' = [hist EXCEPT !.synth =
                  @ \cup {<<loc[t].huge_mem, args[t].length>>}]
    /\ pc' = [pc EXCEPT ![t] = "done"]
    /\ UNCHANGED <<real_mmap, real_munmap, heap, mem, fpos, proc,
                   syms, args, obs, sched>>

\* ------------------------------------------------------------------ munmap
\* untrack_allocation: prev = &allocations; curr = allocations;
\* (prev = NULL stands for &allocations, prev = n for &n->next)
UStart(t) ==
    /\ Turn(t) /\ pc[t] = "u_start"
    /\ loc' = [loc EXCEPT ![t].prev = NULL, ![t].curr = allocations]
    /\ pc' = [pc EXCEPT ![t] = "u_loop"]
    /\ UNCHANGED <<real_mmap, real_munmap, allocations, heap, mem, fpos,
                   proc, syms, args, obs, hist, sched>>

\* curr->addr == addr
Matches(node_addr, addr) == node_addr = addr

\* while (curr) { if (curr->addr == addr) ...; prev = &curr->next;
\* curr = curr->next; } return 0;
ULoop(t) ==
    /\ Turn(t) /\ pc[t] = "u_loop"
    /\ IF loc[t].curr = NULL
       THEN /\ loc' = [loc EXCEPT ![t].tracked_size = 0]
            /\ pc' = [pc EXCEPT ![t] = "u_call"]
       ELSE \E a \in AddrView(loc[t].curr) :
               IF Matches(a, args[t].addr)
               THEN \E sz \in SizeView(loc[t].curr, a) :
                       /\ loc' = [loc EXCEPT ![t].tracked_size = sz]
                       /\ pc' = [pc EXCEPT ![t] = "u_unlink"]
               ELSE \E nx \in NextView(loc[t].curr) :
                       /\ loc' = [loc EXCEPT ![t].prev = loc[t].curr,
                                             ![t].curr = nx]
                       /\ pc' = pc
    /\ UNCHANGED <<real_mmap, real_munmap, allocations, heap, mem, fpos,
                   proc, syms, args, obs, hist, sched>>

\* (mutant) the unlinking always stores into the head.
UnlinkHeadAlways(prev, next, head) == next

\* *prev = curr->next, as seen from the head: allocations after the store
\* (the store goes to the head only when prev is &allocations).
UnlinkHead(prev, next, head) == IF prev = NULL THEN next ELSE head

\* *prev = curr->next; free(curr); return size;
\* (freeing a node twice is detected by the allocator, which aborts, or not)
UUnlink(t) ==
    /\ Turn(t) /\ pc[t] = "u_unlink"
    /\ \E nx \in NextView(loc[t].curr), abort \in BOOLEAN :
          LET again == ~heap[loc[t].curr].live
              h1 == IF loc[t].prev = NULL THEN heap
                    ELSE [heap EXCEPT ![loc[t].prev].next = nx]
          IN  /\ abort => again
              /\ allocations' = UnlinkHead(loc[t].prev, nx, allocations)
              /\ heap' = Free(h1, loc[t].curr)
              /\ hist' = [hist EXCEPT !.doubleFree = @ \/ again]
              /\ proc' = IF abort THEN "crashed" ELSE proc
    /\ pc' = [pc EXCEPT ![t] = "u_call"]
    /\ UNCHANGED <<real_mmap, real_munmap, mem, fpos, syms, args, loc,
                   obs, sched>>

\* (mutant) munmap always hands the caller's length on.
MunmapLenCaller(tracked_size, length) == length

\* The length munmap hands to real_munmap: the tracked size on a hit
\* (tracked_size > 0), the caller's length otherwise.
MunmapLen(tracked_size, length) ==
    IF tracked_size > 0 THEN tracked_size ELSE length

\* return real_munmap(addr, tracked_size) / real_munmap(addr, length)
UCall(t) ==
    /\ Turn(t) /\ pc[t] = "u_call"
    /\ LET len == MunmapLen(loc[t].tracked_size, args[t].length)
           res == MunmapResult(args[t].addr, len)
       IN  /\ mem' = IF res = 0 THEN UnmapPages(mem, args[t].addr, len)
                     ELSE mem
           /\ hist' = [hist EXCEPT !.synth =
                         IF res = 0 THEN Released(@, args[t].addr, len)
                         ELSE @]
           /\ obs' = [obs EXCEPT ![t].log =
                         Append(@, MunmapCall(args[t].addr, len, res))]
           /\ loc' = [loc EXCEPT ![t].ret = res]
    /\ pc' = [pc EXCEPT ![t] = "done"]
    /\ UNCHANGED <<real_mmap, real_munmap, allocations, heap, fpos,
                   proc, syms, args, sched>>

\* ----------------------------------------------------------------- cleanup
\* while (allocations) { next = allocations->next;
CRead(t) ==
    /\ Turn(t) /\ pc[t] = "c_read"
    /\ IF allocations = NULL
       THEN /\ hist' = [hist EXCEPT !.drain = "done"]
            /\ pc' = [pc EXCEPT ![t] = "done"]
            /\ loc' = loc
       ELSE \E nx \in NextView(allocations) :
               /\ loc' = [loc EXCEPT ![t].curr = allocations,
                                     ![t].next = nx]
               /\ pc' = [pc EXCEPT ![t] = "c_write"]
               /\ hist' = hist
    /\ UNCHANGED <<real_mmap, real_munmap, allocations, heap, mem, fpos,
                   proc, syms, args, obs, sched>>

\* (mutant) cleanup stops after the first record.
CleanupAdvanceStop(cur, next) == NULL

\* allocations = next: the node cleanup goes on with after freeing cur.
CleanupAdvance(cur, next) == next

\* free(allocations); allocations = next; }
\* (history: the number of frees, counted up to MaxNodes + 1)
CWrite(t) ==
    /\ Turn(t) /\ pc[t] = "c_write"
    /\ \E abort \in BOOLEAN :
          LET again == ~heap[loc[t].curr].live
          IN  /\ abort => again
              /\ heap' = Free(heap, loc[t].curr)
              /\ hist' = [hist EXCEPT !.doubleFree = @ \/ again]
              /\ proc' = IF abort THEN "crashed" ELSE proc
    /\ allocations' = CleanupAdvance(loc[t].curr, loc[t].next)
    /\ obs' = [obs EXCEPT ![t].nfree = IF @ <= MaxNodes THEN @ + 1 ELSE @]
    /\ pc' = [pc EXCEPT ![t] = "c_read"]
    /\ UNCHANGED <<real_mmap, real_munmap, mem, fpos, syms, args, loc,
                   sched>>

\* ------------------------------------------- a process with a registry
\* The regions <<base, length>> of the address space, and the sequences of k
\* regions no two of which overlap.
Regions ==
    {r \in Pages \X (1..MaxLen) : r[1] + r[2] - 1 <= MaxPage}
Disjoint(r, q) == r[1] + r[2] <= q[1] \/ q[1] + q[2] <= r[1]
RegionSeqs(k) ==
    {s \in [1..k -> Regions] :
        \A i, j \in 1..k : i # j => Disjoint(s[i], s[j])}

\* The state of a single-threaded process after the whole-file mmaps that
\* returned the regions s[1], ..., s[k], in this order, each of file 4 (whose
\* size was s[i][2] at the time) with PROT_READ, and no munmap: the record
\* of s[i] is in node i, the list runs from node k down to node 1, the pages
\* hold the file's bytes and were narrowed to PROT_READ, and the file's read
\* position is at the end of the last copy.  Calls are counted as if all but
\* one had been issued: the process is followed for one more call.
AfterMmaps(s) ==
    LET k == Len(s)
        owner(p) == CHOOSE i \in 1..k : p \in s[i][1]..(s[i][1] + s[i][2] - 1)
        mapped == UNION {s[i][1]..(s[i][1] + s[i][2] - 1) : i \in 1..k}
    IN  /\ real_mmap = TRUE
        /\ real_munmap = TRUE
        /\ allocations = k
        /\ heap = [n \in Nodes |->
                     IF n <= k
                     THEN TrackNode(s[n][1], s[n][2],
                                    IF n = 1 THEN NULL ELSE n - 1)
                     ELSE FreeNode]
        /\ mem = [p \in Pages |->
                    IF p \in mapped
                    THEN [kind |-> "anon", prot |-> PROT_READ,
                          data |-> FileByte(4, p - s[owner(p)][1])]
                    ELSE FreePage]
        /\ fpos = [fd \in Fds \ {0 - 1} |-> IF fd = 4 THEN s[k][2] ELSE 0]
        /\ proc = "running"
        /\ syms = [mmap |-> TRUE, munmap |-> TRUE]
        /\ pc = [t \in Threads |-> "idle"]
        /\ args = [t \in Threads |-> NoArgs]
        /\ loc = [t \in Threads |-> NoLoc]
        /\ obs = [t \in Threads |-> NoObs]
        /\ hist = [NoHist(MaxCalls - 1) EXCEPT
                       !.loaded = TRUE,
                       !.synth = {s[i] : i \in 1..k}]

\* A single-threaded process followed for one call: its first one, or the
\* one after up to MaxNodes whole-file mmaps.
InitReg ==
    /\ sched = "serial"
    /\ \/ InitState /\ hist = NoHist(MaxCalls - 1)
       \/ \E k \in 1..MaxNodes : \E s \in RegionSeqs(k) : AfterMmaps(s)

Next ==
    \E t \in Threads :
          \/ CallMmap(t) \/ CallMunmap(t) \/ Attach(t) \/ Detach(t)
          \/ Return(t)
          \/ InitRdMmap(t) \/ InitWrMmap(t) \/ InitRdMunmap(t)
          \/ InitWrMunmap(t)
          \/ MClassify(t) \/ MFstat(t) \/ MPass(t) \/ MHuge(t) \/ MAnon(t)
          \/ MSeek(t) \/ MRead(t) \/ MAbort(t) \/ MProt(t) \/ MTrack1(t)
          \/ MTrack2(t)
          \/ UStart(t) \/ ULoop(t) \/ UUnlink(t) \/ UCall(t)
          \/ CRead(t) \/ CWrite(t)

Spec == Init /\ [][Next]_vars
SpecMT == InitMT /\ [][Next]_vars
SpecReg == InitReg /\ [][Next]_vars

\* ================================================================= claims
Returned(t, entry) == pc[t] = "done" /\ loc[t].entry = entry

\* The registry reg holds a record for addr; the first such record; reg
\* without its i-th record.
Tracked(reg, addr) == \E i \in 1..Len(reg) : reg[i][1] = addr
RecIndex(reg, addr) ==
    CHOOSE i \in 1..Len(reg) :
        reg[i][1] = addr /\ \A j \in 1..(i - 1) : reg[j][1] # addr
Without(reg, i) == SubSeq(reg, 1, i - 1) \o SubSeq(reg, i + 1, Len(reg))

\* The calls of the real munmap in a log.
Munmaps(log) == {i \in 1..Len(log) : log[i].fn = "munmap"}

\* C1: when munmap(addr, length) returns, the real munmap has been called
\* exactly once and its status is the value returned; if addr was the address
\* of a record when the call began, it was called with (addr, recorded size)
\* whatever length is, and that record is gone; otherwise it was called with
\* (addr, length) and the registry is what it was.
C1_MunmapRouting ==
    \A t \in Threads :
        Returned(t, "munmap") =>
            LET reg0 == obs[t].reg0
                log == obs[t].log
            IN  /\ Len(log) = 1
                /\ log[1].fn = "munmap"
                /\ log[1].res = loc[t].ret
                /\ IF Tracked(reg0, args[t].addr)
                   THEN LET i == RecIndex(reg0, args[t].addr)
                        IN  /\ log[1].a = <<args[t].addr, reg0[i][2]>>
                            /\ Registry = Without(reg0, i)
                   ELSE /\ log[1].a = <<args[t].addr, args[t].length>>
                        /\ Registry = reg0

\* A munmap of a tracked address with a length that is not the recorded size
\* has returned.
C1_Witness ==
    \E t \in Threads :
        /\ Returned(t, "munmap")
        /\ Tracked(obs[t].reg0, args[t].addr)
        /\ obs[t].reg0[RecIndex(obs[t].reg0, args[t].addr)][2] # args[t].length
        /\ loc[t].ret = 0

\* An activated mmap gave up after its anonymous region was allocated.
Aborted(t) ==
    Returned(t, "mmap") /\ obs[t].cause \in {"seek", "read", "eof"}

\* C3: when an activated mmap aborts after the allocation (lseek failed, read
\* failed, read returned 0 early), it returns MAP_FAILED, the real munmap
\* has been called once, with the region and the full length, every page of
\* the region is unmapped, and the registry is what it was at entry.
C3_AbortReleasesRegion ==
    \A t \in Threads :
        Aborted(t) =>
            LET log == obs[t].log
                base == loc[t].huge_mem
            IN  /\ loc[t].ret = MAP_FAILED
                /\ Cardinality(Munmaps(log)) = 1
                /\ log[Len(log)] = MunmapCall(base, args[t].length, 0)
                /\ \A p \in base..(base + args[t].length - 1) :
                      mem[p].kind = "free"
                /\ Registry = obs[t].reg0

\* A copy stopped by an early end of file after part of it was done.
C3_Witness ==
    \E t \in Threads :
        Aborted(t) /\ obs[t].cause = "eof" /\ loc[t].total_read > 0

\* An activated mmap returned its region.
Synthesized(t) ==
    Returned(t, "mmap") /\ obs[t].activated /\ loc[t].ret # MAP_FAILED

\* C4: when a whole-file mmap of a hugetlbfs file succeeds, byte i of the
\* returned region is byte i of the file, for i in 0..length-1, however the
\* reads were split.
C4_RegionHoldsFile ==
    \A t \in Threads :
        Synthesized(t) =>
            \A i \in 0..(args[t].length - 1) :
                mem[loc[t].ret + i].data = FileByte(args[t].fd, i)

\* A synthesis that took several reads has returned.
C4_Witness ==
    \E t \in Threads :
        Synthesized(t) /\ obs[t].nreads >= 2 /\ args[t].length >= 2

\* No call is in progress.
Quiescent == Running /\ \A t \in Threads : pc[t] = "idle"

\* C2: whenever no call is in progress, the addresses in the registry are
\* exactly the synthesized regions that are still mapped, and no address is
\* in two records.
C2_RegistryIsLiveSynth ==
    Quiescent =>
        /\ RegistryAddrs = {r[1] : r \in hist.synth}
        /\ Cardinality(RegistryAddrs) = Len(Registry)

\* The pages of the region a synthesis returned.
Region(t) == loc[t].ret..(loc[t].ret + args[t].length - 1)

\* C5 as stated: when a synthesis for a request without PROT_WRITE succeeds,
\* every page of the region has exactly the requested protection.
C5_Original ==
    \A t \in Threads :
        (Synthesized(t) /\ ~HasWrite(args[t].prot)) =>
            \A p \in Region(t) : mem[p].prot = args[t].prot

\* C5, amended: when a synthesis for a request without PROT_WRITE succeeds,
\* mprotect was called, and unless that call failed every page of the region
\* has exactly the requested protection (so is not writable).
C5_NarrowedUnlessMprotectFails ==
    \A t \in Threads :
        (Synthesized(t) /\ ~HasWrite(args[t].prot)) =>
            \/ obs[t].mprotect = "failed"
            \/ /\ obs[t].mprotect = "ok"
               /\ \A p \in Region(t) : mem[p].prot = args[t].prot

\* A read-only synthesis whose fix-up worked has returned.
C5_Witness ==
    \E t \in Threads :
        /\ Synthesized(t) /\ args[t].prot = PROT_READ
        /\ obs[t].mprotect = "ok"
        /\ \A p \in Region(t) : ~HasWrite(mem[p].prot)

\* The call passed the request through: one call of the real mmap, with the
\* caller's six arguments, whose result is returned; the descriptor was not
\* repositioned or read (its position is the one at entry); the registry is
\* what it was at entry.
PassedThrough(t) ==
    /\ obs[t].log = <<MmapCall(args[t], loc[t].ret)>>
    /\ ~obs[t].touched
    /\ args[t].fd >= 0 => fpos[args[t].fd] = obs[t].pos0
    /\ Registry = obs[t].reg0

\* C6: an mmap whose descriptor is negative, or is not on hugetlbfs, or on
\* which fstatfs fails, is passed through.
C6_NotSpecialPassesThrough ==
    \A t \in Threads :
        (Returned(t, "mmap") /\ args[t].fd \notin HugeFds) => PassedThrough(t)

\* An mmap of the descriptor on which fstatfs fails has returned a region.
C6_Witness ==
    \E t \in Threads :
        /\ Returned(t, "mmap") /\ Fstatfs(args[t].fd).rc # 0 /\ args[t].fd >= 0
        /\ loc[t].ret # MAP_FAILED

\* C7: an mmap of a hugetlbfs file with a non-zero offset, or with a length
\* that is not the size fstat reported, is passed through.
C7_PartialPassesThrough ==
    \A t \in Threads :
        (/\ Returned(t, "mmap") /\ args[t].fd \in HugeFds
         /\ obs[t].cause = "stat_ok"
         /\ (args[t].offset # 0 \/ args[t].length # loc[t].st_size))
        => PassedThrough(t)

\* An mmap of a whole hugetlbfs file at a non-zero offset has returned.
C7_Witness ==
    \E t \in Threads :
        /\ Returned(t, "mmap") /\ args[t].fd \in HugeFds
        /\ obs[t].cause = "stat_ok"
        /\ args[t].offset # 0 /\ args[t].length = loc[t].st_size
        /\ loc[t].ret # MAP_FAILED

\* C8: once two whole-file mmaps of two hugetlbfs files have both succeeded
\* (calls of different threads interleaving in any way) and no call is in
\* progress, the registry holds exactly two records, one per returned
\* address, each with the length of its file.
C8_BothRecorded ==
    (/\ Running /\ hist.drain = "no"
     /\ \A t \in Threads : pc[t] \in {"idle", "done"}
     /\ Cardinality(hist.synth) = 2)
    => /\ Len(Registry) = 2
       /\ {Registry[i] : i \in 1..Len(Registry)} = hist.synth

\* Thread t is inside a registry operation: in track_allocation between its
\* read and its write of allocations, in untrack_allocation's walk, or in
\* cleanup between reading the head and replacing it.
InRegistry(t) == pc[t] \in {"m_track2", "u_loop", "u_unlink", "c_write"}

\* C9: no two threads are inside a registry operation at the same time.
C9_MutualExclusion ==
    \A t, u \in Threads : (t # u /\ InRegistry(t)) => ~InRegistry(u)

\* C10: cleanup frees one record per iteration (the records freed so far and
\* the records still chained add up to those chained when it began, so it
\* ends after that many iterations), and when it has returned the registry
\* is empty, no node is allocated, each record chained when it began was
\* freed once and none twice.
C10_DrainEmptiesRegistry ==
    \A t \in Threads :
        /\ pc[t] \in {"c_read", "c_write"} =>
              obs[t].nfree + Len(Registry) = Len(obs[t].reg0)
        /\ Returned(t, "cleanup") =>
              /\ allocations = NULL
              /\ Registry = <<>>
              /\ \A n \in Nodes : ~heap[n].live
              /\ obs[t].nfree = Len(obs[t].reg0)
              /\ ~hist.doubleFree

\* cleanup has returned after freeing two records nobody had unmapped.
C10_Witness ==
    \E t \in Threads :
        Returned(t, "cleanup") /\ Len(obs[t].reg0) = 2 /\ obs[t].nfree = 2

\* Thread t is about to call through one of the two handles.
Delegating(t) == pc[t] \in {"m_pass", "m_huge", "m_anon", "m_abort", "u_call"}

\* Thread t is inside mmap or munmap, past init_functions.
PastInit(t) ==
    /\ loc[t].entry \in {"mmap", "munmap"}
    /\ pc[t] \notin {"idle", "init_rd_mmap", "init_wr_mmap", "init_rd_munmap",
                     "init_wr_munmap"}

\* C11: a thread that is past init_functions in mmap or munmap, that is about
\* to call a real primitive or that has called one, finds both handles
\* non-null; and when the process has exited because a symbol was not found,
\* no real primitive has been called: no call has logged one, no page was
\* ever mapped and the call that exited is the first one issued.
C11_ResolvedBeforeDelegation ==
    /\ \A t \in Threads :
          (PastInit(t) \/ Delegating(t) \/ obs[t].log # <<>>)
              => (real_mmap /\ real_munmap)
    /\ proc = "exited" =>
          /\ ~(real_mmap /\ real_munmap)
          /\ \A t \in Threads : obs[t].log = <<>> /\ ~Delegating(t)
          /\ \A p \in Pages : mem[p] = FreePage
          /\ hist.synth = {}
          /\ sched = "serial" => hist.ncalls <= 1

\* An mmap that had to resolve the pair itself (the constructor has not run)
\* has called the real mmap and returned.
C11_Witness ==
    \E t \in Threads :
        /\ Returned(t, "mmap") /\ ~hist.loaded
        /\ obs[t].log # <<>>
        /\ real_mmap /\ real_munmap

\* C12: a handle is stored only while it is null: no step of any thread
\* executes the assignment of line 47 when real_mmap is already non-null, nor
\* that of line 54 when real_munmap is (each handle is written once, by the
\* first caller).
C12_HandleWrittenOnce ==
    [][\A t \in Threads : /\ InitWrMmap(t) => ~real_mmap
                          /\ InitWrMunmap(t) => ~real_munmap]_vars

\* C13: when fstat fails in an mmap of a hugetlbfs descriptor, the request is
\* passed through: the only real call is one real_mmap with the caller's six
\* arguments (so no anonymous region is allocated), its result is returned,
\* the descriptor is not touched and the registry is what it was at entry.
C13_FstatFailurePassesThrough ==
    \A t \in Threads :
        (Returned(t, "mmap") /\ obs[t].cause = "fstat") =>
            /\ Special(args[t].fd)
            /\ ~obs[t].activated
            /\ PassedThrough(t)

\* A whole-file request on which fstat failed has returned a native region.
C13_Witness ==
    \E t \in Threads :
        /\ Returned(t, "mmap") /\ obs[t].cause = "fstat"
        /\ args[t].offset = 0 /\ args[t].length > 0
        /\ loc[t].ret # MAP_FAILED
        /\ \A p \in Region(t) : mem[p].kind = "native"

\* C14 as stated: after a failed fstat, a failed lseek, a read error, an early
\* end of file or the failure of both allocations, mmap returns MAP_FAILED,
\* and the process is still running.
C14_Original ==
    \A t \in Threads :
        obs[t].cause \in {"fstat", "seek", "read", "eof", "alloc"} =>
            /\ Running
            /\ Returned(t, "mmap") => loc[t].ret = MAP_FAILED

\* C14, amended: after a failed lseek, a read error, an early end of file or
\* the failure of both allocations, mmap returns MAP_FAILED; after a failed
\* fstat it returns what the real mmap returned for the caller's arguments;
\* in all five cases the process is still running.
C14_FailuresReported ==
    \A t \in Threads :
        obs[t].cause \in {"fstat", "seek", "read", "eof", "alloc"} =>
            /\ Running
            /\ Returned(t, "mmap") =>
                  IF obs[t].cause = "fstat"
                  THEN /\ Len(obs[t].log) = 1
                       /\ obs[t].log[1] = MmapCall(args[t], loc[t].ret)
                  ELSE loc[t].ret = MAP_FAILED

\* A copy stopped by a read error after part of it was done has returned.
C14_Witness ==
    \E t \in Threads :
        /\ Returned(t, "mmap") /\ obs[t].cause = "read"
        /\ loc[t].total_read > 0 /\ loc[t].ret = MAP_FAILED

\* Thread t is in an activated mmap, past the allocation of its region.
Allocated(t) ==
    /\ loc[t].entry = "mmap" /\ obs[t].activated
    /\ pc[t] \in {"m_seek", "m_read", "m_abort", "m_prot", "m_track1",
                  "m_track2", "done"}

\* C15: an activated mmap first calls real_mmap(NULL, length, RW,
\* PRIVATE|ANONYMOUS|HUGETLB, -1, 0); it calls real_mmap(NULL, length, RW,
\* PRIVATE|ANONYMOUS, -1, 0) next if and only if the first call failed, and
\* makes no other allocation; when both fail it returns MAP_FAILED having
\* made no other real call (it mapped nothing, and released nothing), and
\* the registry and the descriptor's position are what they were at entry.
C15_FallbackIffHugeFails ==
    \A t \in Threads :
        Allocated(t) =>
            LET log == obs[t].log
                len == args[t].length
                second == Len(log) >= 2 /\ log[2].fn = "mmap"
            IN  /\ Len(log) >= 1
                /\ log[1] = MmapCall(HugeArgs(len), log[1].res)
                /\ second <=> log[1].res = MAP_FAILED
                /\ second => log[2] = MmapCall(AnonArgs(len), log[2].res)
                /\ \A i \in 3..Len(log) : log[i].fn # "mmap"
                /\ (second /\ log[2].res = MAP_FAILED) =>
                      /\ pc[t] = "done" /\ loc[t].ret = MAP_FAILED
                      /\ Len(log) = 2
                      /\ ~obs[t].touched
                      /\ fpos[args[t].fd] = obs[t].pos0
                      /\ Registry = obs[t].reg0
                      /\ Munmaps(log) = {}

\* Both allocations of a non-empty whole-file request failed, and mmap has
\* returned.
C15_Witness ==
    \E t \in Threads :
        /\ Returned(t, "mmap") /\ obs[t].cause = "alloc"
        /\ args[t].length > 0 /\ Len(obs[t].log) = 2
        /\ loc[t].ret = MAP_FAILED

\* The sum of the first k counts of a sequence of reads.
RECURSIVE SumReads(_, _)
SumReads(rd, k) == IF k = 0 THEN 0 ELSE SumReads(rd, k - 1) + rd[k][2]

\* The smaller of two numbers.
Min(a, b) == IF a < b THEN a ELSE b

\* C16: in the copy loop every read asks for what is left of the length (at
\* most one chunk); total_read is the sum of the counts returned and never
\* exceeds the length, and every read but a failing last one returns at
\* least 1, so the loop makes at most length + 1 reads; a read that returns
\* a positive count, smaller than asked for or not, is followed by the next
\* iteration; the loop is left for the fix-up only with total_read = length
\* and every count positive, and it is left for the abort path exactly when
\* the last read returned 0 or -1.
C16_CopyLoopTerminates ==
    \A t \in Threads :
        (loc[t].entry = "mmap" /\ obs[t].reads # <<>>) =>
            LET rd == obs[t].reads
                len == args[t].length
                last == rd[Len(rd)][2]
                failed == obs[t].cause \in {"read", "eof"}
            IN  /\ \A i \in 1..Len(rd) :
                      /\ rd[i][1] = Min(len - SumReads(rd, i - 1), ChunkSize)
                      /\ rd[i][2] <= rd[i][1]
                      /\ i < Len(rd) => rd[i][2] > 0
                /\ loc[t].total_read = SumReads(rd, IF last > 0 THEN Len(rd)
                                                   ELSE Len(rd) - 1)
                /\ loc[t].total_read <= len
                /\ Len(rd) <= len + 1
                /\ last <= 0 <=> failed
                /\ failed => /\ pc[t] \in {"m_abort", "done"}
                             /\ loc[t].total_read < len
                /\ ~failed => \/ pc[t] = "m_read"
                              \/ /\ pc[t] \in {"m_prot", "m_track1", "m_track2",
                                                "done"}
                                 /\ loc[t].total_read = len
                /\ (Returned(t, "mmap") /\ ~failed) => loc[t].ret = loc[t].huge_mem

\* A synthesis of three pages has returned after a read of two pages that
\* returned one and a read of two pages that returned two.
C16_Witness ==
    \E t \in Threads :
        /\ Synthesized(t) /\ args[t].length = 3
        /\ obs[t].reads = <<<<2, 1>>, <<2, 2>>>>

\* C17: after mprotect has failed, mmap goes on to track_allocation and calls
\* no real munmap: the region stays mapped, readable and writable; and when
\* mmap returns it returns the region's address, and the registry is the one
\* at entry with the record <<address, length>> added in front.
C17_FixupFailureIsNotFatal ==
    \A t \in Threads :
        (loc[t].entry = "mmap" /\ obs[t].mprotect = "failed") =>
            LET base == loc[t].huge_mem
                len == args[t].length
            IN  /\ pc[t] \in {"m_track1", "m_track2", "done"}
                /\ loc[t].total_read = len
                /\ Munmaps(obs[t].log) = {}
                /\ base # MAP_FAILED
                /\ \A p \in base..(base + len - 1) :
                      /\ mem[p].kind = "anon"
                      /\ mem[p].prot = PROT_READ + PROT_WRITE
                /\ pc[t] = "done" =>
                      /\ loc[t].ret = base
                      /\ Registry = <<<<base, len>>>> \o obs[t].reg0

\* A read-only synthesis whose fix-up failed has returned its region, which
\* is writable.
C17_Witness ==
    \E t \in Threads :
        /\ Synthesized(t) /\ obs[t].mprotect = "failed"
        /\ ~HasWrite(args[t].prot)
        /\ \A p \in Region(t) : HasWrite(mem[p].prot)
        /\ Tracked(Registry, loc[t].ret)

\* untrack_allocation has returned to munmap in thread t.
Untracked(t) == loc[t].entry = "munmap" /\ pc[t] \in {"u_call", "done"}

\* C18: when untrack_allocation(addr) returns, if no record had the address
\* it returns 0 and the registry is what it was; otherwise it returns the
\* size of the record with that address, that record is gone and the other
\* records are the same, in the same order, wherever the record was in the
\* list; one node was freed, and none twice.
C18_UntrackRemovesOne ==
    \A t \in Threads :
        Untracked(t) =>
            LET reg0 == obs[t].reg0
                live == {n \in Nodes : heap[n].live}
            IN  /\ IF Tracked(reg0, args[t].addr)
                   THEN LET i == RecIndex(reg0, args[t].addr)
                        IN  /\ loc[t].tracked_size = reg0[i][2]
                            /\ Registry = Without(reg0, i)
                   ELSE /\ loc[t].tracked_size = 0
                        /\ Registry = reg0
                /\ Cardinality(live) = Len(Registry)
                /\ ~hist.doubleFree

\* The record in the middle of a list of three has been removed.
C18_Witness ==
    \E t \in Threads :
        /\ Untracked(t) /\ Len(obs[t].reg0) = 3
        /\ obs[t].reg0[2][1] = args[t].addr
        /\ Registry = <<obs[t].reg0[1], obs[t].reg0[3]>>
        /\ loc[t].tracked_size = obs[t].reg0[2][2]

\* C19: every record of the registry has a size greater than 0; so when
\* untrack_allocation has returned, its result is positive exactly when a
\* record had the address, and a munmap of a tracked address calls the real
\* munmap with the recorded size, never with the caller's length.
C19_RecordSizesPositive ==
    /\ \A i \in 1..Len(Registry) : Registry[i][2] > 0
    /\ \A n \in Nodes : heap[n].live => heap[n].size > 0
    /\ \A t \in Threads :
          /\ Untracked(t) =>
                (loc[t].tracked_size > 0 <=> Tracked(obs[t].reg0, args[t].addr))
          /\ (Returned(t, "munmap") /\ Tracked(obs[t].reg0, args[t].addr)) =>
                /\ obs[t].log[1].a[2] > 0
                /\ obs[t].log[1].a[2] =
                      obs[t].reg0[RecIndex(obs[t].reg0, args[t].addr)][2]

\* A munmap of a tracked address with length 0 (which the kernel would
\* reject) has released the region.
C19_Witness ==
    \E t \in Threads :
        /\ Returned(t, "munmap") /\ Tracked(obs[t].reg0, args[t].addr)
        /\ args[t].length = 0 /\ loc[t].ret = 0
        /\ mem[args[t].addr].kind = "free"

\* C20: when mmap returns, the read position of its descriptor is the one at
\* entry, and no lseek or read was made, if the request was not activated
\* (not on hugetlbfs, fstat failed, not the whole file) or both allocations
\* failed; it is the mapped length if the synthesis succeeded; and the
\* position of a descriptor that is not on hugetlbfs never changes.
C20_PositionMovesOnlyOnSynthesis ==
    /\ \A fd \in Fds \ ({0 - 1} \cup HugeFds) : fpos[fd] = 0
    /\ \A t \in Threads :
          Returned(t, "mmap") =>
              /\ (args[t].fd >= 0 /\ (~obs[t].activated \/ obs[t].cause = "alloc"))
                    => /\ fpos[args[t].fd] = obs[t].pos0
                       /\ ~obs[t].touched
                       /\ obs[t].reads = <<>>
              /\ Synthesized(t) => fpos[args[t].fd] = args[t].length

\* A synthesis has returned leaving the read position at the mapped length,
\* which is not where it was before the request.
C20_Witness ==
    \E t \in Threads :
        /\ Synthesized(t)
        /\ obs[t].pos0 > 0 /\ obs[t].pos0 # args[t].length
        /\ fpos[args[t].fd] = args[t].length

====
